---------------------------- MODULE Spec2Model ----------------------------
(***************************************************************************)
(* Model of the transapp job pipeline.                                     *)
(*                                                                         *)
(*   app.py          sign / start_job / stream_raw / generate / run_cmd    *)
(*   cut.py          fast_cut / video_duration / make_slice                *)
(*   title_clips.py  main / process_clip                                   *)
(*   s3_utils.py     presign_single_post / presign_multipart /             *)
(*                   download_to_temp                                      *)
(*                                                                         *)
(* The specifications share the variables and the child-process actions:   *)
(*   Spec       the web application: jobs, streams and the cut.py child    *)
(*              that generate() starts through run_cmd;                    *)
(*   SpecCut    cut.py run from the shell (count or interval mode);        *)
(*   SpecSeq    the web application serving jobs one after another;        *)
(*   SpecPair   the web application serving MaxPair jobs at a time;        *)
(*   SpecTitle  title_clips.py run from the shell;                         *)
(*   SpecOrder  title_clips.py over the clips of one long plan;            *)
(*   SpecUpload the upload negotiation (sign and the presign functions).   *)
(*                                                                         *)
(* Times are exact rationals <<num, den>>: Python computes them in binary  *)
(* floating point, whose rounding (at most a few ulp) is not modelled.     *)
(***************************************************************************)
EXTENDS Integers, Sequences, FiniteSets, TLC

(* ------------------------------ bounds -------------------------------- *)
MaxStreams   == 1   \* stream_raw responses being produced at the same time
MaxRequests  == 1   \* stream_raw requests over a behaviour
MaxJobs      == 1   \* start_job requests over a behaviour
MaxReqParts  == 3   \* largest "parts" value a start-job request carries
MaxTotal     == 6   \* largest media duration (s) probed in a shell run
MaxParts     == 5   \* largest --parts value of a shell run
MaxInterval  == 4   \* largest --interval value (s) of a shell run
MaxClips     == 3   \* most clips in videos/clips when title_clips.py starts
MaxTables    == 2   \* result tables written over a behaviour
MaxCalls     == 2   \* upload negotiation calls over a behaviour
MaxNames     == 1   \* distinct file name stems a client declares
MaxSizeMiB   == 2   \* declared sizes: m MiB and m MiB + 1, m <= MaxSizeMiB
MaxPartMb    == 2   \* part_mb values 1..MaxPartMb (beside the default)
MaxRuns      == 2   \* jobs started and streamed one after another
MaxPair      == 2   \* jobs started and streamed at the same time
MaxLongPlan  == 10  \* most clips of one plan when title_clips.py starts

(* ----------------------------- rationals ------------------------------ *)
Rat(n)          == <<n, 1>>
RatLeq(a, b)    == a[1] * b[2] <= b[1] * a[2]
RatEq(a, b)     == a[1] * b[2] = b[1] * a[2]
RatMin(a, b)    == IF RatLeq(a, b) THEN a ELSE b
RatMulInt(i, a) == <<i * a[1], a[2]>>
RatDivInt(a, n) == <<a[1], a[2] * n>>
RatSub(a, b)    == <<a[1] * b[2] - b[1] * a[2], a[2] * b[2]>>
(* math.ceil(a / b) for a >= 0, b > 0 *)
RatCeilDiv(a, b) == ((a[1] * b[2]) + (a[2] * b[1]) - 1) \div (a[2] * b[1])

Max2(a, b) == IF a >= b THEN a ELSE b
Last(s)    == s[Len(s)]

Streams == 1..MaxStreams
Shell   == 0                     \* owner of a process started from the shell
Owners  == {Shell} \cup Streams
BogusId == 0                     \* a job id that start_job never issued
JobIds  == 1..MaxJobs

VARIABLES
  JOBS,      \* app.JOBS: job id -> [link, s3_key, parts]
  issued,    \* number of job ids issued by uuid4 so far
  requests,  \* number of stream_raw requests so far
  gen,       \* per stream slot: the generate() generator of one response
  cut,       \* per owner: the cut.py process
  title,     \* per owner: the title_clips.py process
  clips,     \* videos/clips: set of <<stem, part number>>
  tables,    \* logs/clip_titles_*.csv in order of writing
  tmp,       \* temporary files made by download_to_temp (by request number)
  upload     \* the upload negotiation calls made so far and their result

vars == <<JOBS, issued, requests, gen, cut, title, clips, tables, tmp,
         upload>>

(* ======================= cut.py (child process) ======================= *)
(* A falsy argument (None, 0, 0.0) is 0 / Rat(0).  out says where the      *)
(* process's stdout goes: "tty" (shell), "pipe" (run_cmd, read end open)   *)
(* or "closed" (run_cmd, read end closed by the parent).                   *)
NoCut ==
  [pc |-> "none", argParts |-> 0, argInterval |-> Rat(0), parts |-> 0,
   interval |-> Rat(0), total |-> Rat(0), idx |-> 0, slices |-> <<>>,
   failed |-> 0, out |-> "tty", pipe |-> 0, stem |-> 0]

CutExited(c) == c.pc \in {"exit0", "exit1"}

(* print(): a line written to the tty is gone; a line written to an open   *)
(* pipe waits there for the parent; with the read end closed the line is   *)
(* either still held in the block buffer of sys.stdout or the write raises *)
(* BrokenPipeError, which ends the process.                                *)
PrintLn(c) ==
  CASE c.out = "tty"    -> {c}
    [] c.out = "pipe"   -> {[c EXCEPT !.pipe = @ + 1]}
    [] c.out = "closed" -> {c, [c EXCEPT !.pc = "exit1"]}

(* subprocess start of cut.py with its command line *)
StartCut(o, p, iv, stem, out) ==
  cut' = [cut EXCEPT ![o] =
            [NoCut EXCEPT !.pc = "L63", !.argParts = p, !.argInterval = iv,
                          !.stem = stem, !.out = out]]

(* mutant: only the call that gives neither is rejected *)
NeitherOnly(p, iv) == p = 0 /\ iv[1] = 0

(* cut.py:63-64  if bool(parts) == bool(interval): raise ValueError *)
BothOrNeither(p, iv) == (p # 0) = (iv[1] # 0)

FastCutCheck(o) ==
  /\ cut[o].pc = "L63"
  /\ cut' = [cut EXCEPT ![o].pc =
               IF BothOrNeither(cut[o].argParts, cut[o].argInterval)
               THEN "exit1" ELSE "L66"]
  /\ UNCHANGED <<JOBS, issued, requests, gen, title, clips, tables, tmp, upload>>

(* cut.py:66, 43-49  total = video_duration(src): ffprobe fails, or prints *)
(* a duration that float() parses                                          *)
VideoDuration(o, D) ==
  /\ cut[o].pc = "L66"
  /\ \/ cut' = [cut EXCEPT ![o].pc = "exit1"]
     \/ \E t \in D : cut' = [cut EXCEPT ![o].pc = "L67", ![o].total = Rat(t)]
  /\ UNCHANGED <<JOBS, issued, requests, gen, title, clips, tables, tmp, upload>>

(* mutant: floor division (total // parts) in count mode *)
PlanIntervalFloor(total, p, iv) ==
  IF p # 0 THEN Rat(total[1] \div (total[2] * p)) ELSE iv

(* cut.py:67-70 *)
PlanInterval(total, p, iv) == IF p # 0 THEN RatDivInt(total, p) ELSE iv

PlanParts(total, p, iv) == IF p # 0 THEN p ELSE RatCeilDiv(total, iv)

(* cut.py:67-72  plan, then print the "[i] ..." line *)
PlanAndAnnounce(o) ==
  /\ cut[o].pc = "L67"
  /\ LET c  == cut[o]
         c1 == [c EXCEPT !.pc = "L73", !.idx = 0,
                  !.interval = PlanInterval(c.total, c.argParts, c.argInterval),
                  !.parts    = PlanParts(c.total, c.argParts, c.argInterval)]
     IN  \E c2 \in PrintLn(c1) : cut' = [cut EXCEPT ![o] = c2]
  /\ UNCHANGED <<JOBS, issued, requests, gen, title, clips, tables, tmp, upload>>

(* mutant: the end of a slice is not clamped to the duration *)
SliceEndNoClamp(idx, interval, total) == RatMulInt(idx + 1, interval)

(* cut.py:74  start, end = idx*interval, min((idx+1)*interval, total) *)
SliceStart(idx, interval) == RatMulInt(idx, interval)

SliceEnd(idx, interval, total) == RatMin(RatMulInt(idx + 1, interval), total)

(* mutant: make_slice without check=True, a failed ffmpeg is not noticed *)
MakeSliceUnchecked(o) ==
  /\ cut[o].pc = "L73"
  /\ cut[o].idx < cut[o].parts
  /\ LET c    == cut[o]
         sl   == <<SliceStart(c.idx, c.interval),
                   SliceEnd(c.idx, c.interval, c.total)>>
         file == <<c.stem, c.idx + 1>>
     IN  \E ok \in BOOLEAN :
           /\ clips' = IF ok THEN clips \cup {file} ELSE clips
           /\ \E c2 \in PrintLn([c EXCEPT !.slices = Append(@, sl),
                                          !.idx = @ + 1,
                                          !.failed = IF ok \/ @ # 0 THEN @
                                                     ELSE c.idx + 1]) :
                cut' = [cut EXCEPT ![o] = c2]
  /\ UNCHANGED <<JOBS, issued, requests, gen, title, tables, tmp, upload>>

(* cut.py:73-75, 51-60  one pass of the loop: make_slice runs ffmpeg with  *)
(* check=True; a non-zero exit raises CalledProcessError, which nothing    *)
(* catches, so the process ends (a failed ffmpeg is taken to leave no      *)
(* clip behind); otherwise the status line is printed.                     *)
MakeSlice(o) ==
  /\ cut[o].pc = "L73"
  /\ cut[o].idx < cut[o].parts
  /\ LET c    == cut[o]
         sl   == <<SliceStart(c.idx, c.interval),
                   SliceEnd(c.idx, c.interval, c.total)>>
         file == <<c.stem, c.idx + 1>>
     IN  \/ /\ clips' = clips \cup {file}
            /\ \E c2 \in PrintLn([c EXCEPT !.slices = Append(@, sl),
                                           !.idx = @ + 1]) :
                 cut' = [cut EXCEPT ![o] = c2]
         \/ /\ cut' = [cut EXCEPT ![o].slices = Append(@, sl),
                                  ![o].failed = c.idx + 1,
                                  ![o].pc = "exit1"]
            /\ clips' = clips
  /\ UNCHANGED <<JOBS, issued, requests, gen, title, tables, tmp, upload>>

(* cut.py:76  the loop is over: print the closing line and exit *)
CutFooter(o) ==
  /\ cut[o].pc = "L73"
  /\ cut[o].idx >= cut[o].parts
  /\ \E c2 \in PrintLn([cut[o] EXCEPT !.pc = "exit0"]) :
       cut' = [cut EXCEPT ![o] = c2]
  /\ UNCHANGED <<JOBS, issued, requests, gen, title, clips, tables, tmp, upload>>

(* fast_cut(src, parts, interval) called from the shell / by a caller *)
RunFastCut(p, iv) ==
  /\ cut[Shell].pc \in {"none", "exit0", "exit1"}
  /\ StartCut(Shell, p, iv, 0, "tty")
  /\ UNCHANGED <<JOBS, issued, requests, gen, title, clips, tables, tmp, upload>>

(* =================== title_clips.py (child process) =================== *)
NoTitle ==
  [pc |-> "none", k |-> 0, todo |-> <<>>, rows |-> <<>>, titleCalls |-> <<>>,
   oggs |-> 0, wrote |-> FALSE, out |-> "tty", pipe |-> 0]

StartTitle(o, out) ==
  title' = [title EXCEPT ![o] = [NoTitle EXCEPT !.pc = "L48", !.out = out]]

(* decimal digits of a part number, most significant first *)
RECURSIVE Digits(_)
Digits(n) == IF n < 10 THEN <<n>> ELSE Append(Digits(n \div 10), n % 10)

(* order of "<digits>.mp4" strings: "." sorts before every digit *)
RECURSIVE LexLess(_, _)
LexLess(a, b) ==
  IF a = <<>> THEN b # <<>>
  ELSE IF b = <<>> THEN FALSE
  ELSE IF Head(a) # Head(b) THEN Head(a) < Head(b)
  ELSE LexLess(Tail(a), Tail(b))

(* order of the file names "<stem>_part<n>.mp4" *)
NameLess(a, b) ==
  \/ a[1] < b[1]
  \/ a[1] = b[1] /\ LexLess(Digits(a[2]), Digits(b[2]))

(* title_clips.py:129  sorted(CLIPS.glob("*.mp4")) *)
RECURSIVE SortedClips(_)
SortedClips(S) ==
  IF S = {} THEN <<>>
  ELSE LET m == CHOOSE x \in S : \A y \in S \ {x} : NameLess(x, y)
       IN  <<m>> \o SortedClips(S \ {m})

(* title_clips.py:48-50  sys.exit when OPENAI_API_KEY is not set *)
TitleKeyCheck(o) ==
  /\ title[o].pc = "L48"
  /\ \E keySet \in BOOLEAN :
       title' = [title EXCEPT ![o].pc = IF keySet THEN "L129" ELSE "exit1"]
  /\ UNCHANGED <<JOBS, issued, requests, gen, cut, clips, tables, tmp, upload>>

(* title_clips.py:129-135  list the clips; with none, warn and return *)
ListClips(o) ==
  /\ title[o].pc = "L129"
  /\ LET cs == SortedClips(clips)
         t1 == IF cs = <<>>
               THEN [title[o] EXCEPT !.pc = "exit0"]
               ELSE [title[o] EXCEPT !.pc = "L136", !.todo = cs, !.k = Len(cs)]
     IN  \E t2 \in PrintLn(t1) : title' = [title EXCEPT ![o] = t2]
  /\ UNCHANGED <<JOBS, issued, requests, gen, cut, clips, tables, tmp, upload>>

ExtractOutcomes    == {"ok", "fail_nofile", "fail_file"}
TranscriptOutcomes == {"fail", "empty", "text"}
TitleOutcomes      == {"fail", "ok"}

(* title_clips.py:107-121  the value process_clip returns, as a sequence   *)
(* of rows: <<>> for None.  Any exception of extract_ogg, of the           *)
(* transcription or of albanian_title is caught and gives None.            *)
ProcessClipResult(mp4, ex, tr, ti) ==
  IF ex = "ok" /\ tr # "fail" /\ ti = "ok"
  THEN <<[file |-> mp4, title |-> "generated"]>>
  ELSE <<>>

(* title_clips.py:117  albanian_title(txt) is called with whatever the     *)
(* transcription returned                                                  *)
TitleCallsOf(ex, tr) == IF ex = "ok" /\ tr # "fail" THEN <<tr>> ELSE <<>>

(* title_clips.py:122-126  finally: ogg.unlink(); ogg is unbound when      *)
(* extract_ogg raised, and the NameError is swallowed                      *)
OggLeft(ex) == IF ex = "fail_file" THEN 1 ELSE 0

(* title_clips.py:136-139  one pass of the loop of main *)
ProcessClipWith(o, EX, TR, TI) ==
  /\ title[o].pc = "L136"
  /\ title[o].todo # <<>>
  /\ \E ex \in EX, tr \in TR, ti \in TI :
       LET t   == title[o]
           res == ProcessClipResult(Head(t.todo), ex, tr, ti)
           t1  == [t EXCEPT !.todo = Tail(@), !.rows = @ \o res,
                            !.titleCalls = @ \o TitleCallsOf(ex, tr),
                            !.oggs = @ + OggLeft(ex)]
       IN  IF res = <<>>
           THEN \E t2 \in PrintLn(t1) : title' = [title EXCEPT ![o] = t2]
           ELSE title' = [title EXCEPT ![o] = t1]
  /\ UNCHANGED <<JOBS, issued, requests, gen, cut, clips, tables, tmp, upload>>

ProcessClip(o) ==
  ProcessClipWith(o, ExtractOutcomes, TranscriptOutcomes, TitleOutcomes)

(* title_clips.py:141-148  write the header and the rows, print, return.   *)
(* A table is the sequence of its data rows (the header is always there).  *)
WriteTable(o) ==
  /\ title[o].pc = "L136"
  /\ title[o].todo = <<>>
  /\ tables' = Append(tables, title[o].rows)
  /\ \E t2 \in PrintLn([title[o] EXCEPT !.pc = "exit0", !.wrote = TRUE]) :
       title' = [title EXCEPT ![o] = t2]
  /\ UNCHANGED <<JOBS, issued, requests, gen, cut, clips, tmp, upload>>

(* python title_clips.py from the shell *)
RunTitle ==
  /\ title[Shell].pc \in {"none", "exit0", "exit1"}
  /\ Len(tables) < MaxTables
  /\ StartTitle(Shell, "tty")
  /\ UNCHANGED <<JOBS, issued, requests, gen, cut, clips, tables, tmp, upload>>

(* ============================== app.py ================================ *)
(* A line of the progress stream. *)
Line(kind)    == [kind |-> kind, msg |-> ""]
FailLine(msg) == [kind |-> "fail", msg |-> msg]

(* pc names the line of app.py the generator is at; "run_cut"/"run_title"  *)
(* is the for loop over run_cmd (app.py:134-135, 140), "closing" is        *)
(* Popen.__exit__ waiting for the child after the generator was closed.    *)
IdleGen ==
  [pc |-> "idle", sid |-> 0, job_id |-> 0, found |-> FALSE, s3_key |-> "None",
   parts |-> 5, src |-> 0, out |-> <<>>, stages |-> <<>>, err |-> "none",
   connected |-> FALSE]

GenOver(g) == g.pc \in {"idle", "done", "cancelled"}

(* app.py:85-91  start_job.  Every job is registered with link = "", so    *)
(* the link branch of generate (app.py:119-127) is never taken.            *)
StartJobUpTo(p, maxJobs) ==
  /\ issued < maxJobs
  /\ issued' = issued + 1
  /\ JOBS' = JOBS @@ ((issued + 1) :>
               [link |-> "", s3_key |-> "key", parts |-> Max2(2, p)])
  /\ UNCHANGED <<requests, gen, cut, title, clips, tables, tmp, upload>>

StartJob(p) == StartJobUpTo(p, MaxJobs)

(* app.py:106-110, 146  stream_raw: JOBS.pop(job_id, {}) and the defaults  *)
(* of job.get; the response wraps a new generator.                         *)
StreamRawUpTo(r, id, maxRequests) ==
  /\ GenOver(gen[r])
  /\ requests < maxRequests
  /\ requests' = requests + 1
  /\ LET found == id \in DOMAIN JOBS
     IN  /\ JOBS' = [j \in DOMAIN JOBS \ {id} |-> JOBS[j]]
         /\ gen' = [gen EXCEPT ![r] =
                      [IdleGen EXCEPT !.pc = "L115", !.sid = requests + 1,
                         !.job_id = id, !.found = found,
                         !.s3_key = IF found THEN JOBS[id].s3_key ELSE "None",
                         !.parts  = IF found THEN JOBS[id].parts ELSE 5,
                         !.connected = TRUE]]
  /\ cut' = [cut EXCEPT ![r] = NoCut]
  /\ title' = [title EXCEPT ![r] = NoTitle]
  /\ UNCHANGED <<issued, clips, tables, tmp, upload>>

StreamRaw(r, id) == StreamRawUpTo(r, id, MaxRequests)

PurgeKeepsClips(r) ==
  /\ gen[r].pc = "L115"
  /\ clips' = clips
  /\ gen' = [gen EXCEPT ![r].pc = "L129", ![r].stages = Append(@, "purge")]
  /\ UNCHANGED <<JOBS, issued, requests, cut, title, tables, tmp, upload>>

(* app.py:115-116  shutil.rmtree(CLIPS); CLIPS.mkdir() *)
Purge(r) ==
  /\ gen[r].pc = "L115"
  /\ clips' = {}
  /\ gen' = [gen EXCEPT ![r].pc = "L129", ![r].stages = Append(@, "purge")]
  /\ UNCHANGED <<JOBS, issued, requests, cut, title, tables, tmp, upload>>

(* the yield statements of generate *)
YieldPcs == {"L129", "L130y", "L132", "L138", "L142", "L144"}

LineAt(g) ==
  CASE g.pc = "L129"  -> Line("fetching")
    [] g.pc = "L130y" -> Line("fetched")
    [] g.pc = "L132"  -> Line("cutting")
    [] g.pc = "L138"  -> Line("titling")
    [] g.pc = "L142"  -> Line("FINISHED")
    [] g.pc = "L144"  -> FailLine(g.err)

AfterYield(pc) ==
  CASE pc = "L129"  -> "L130"
    [] pc = "L130y" -> "L132"
    [] pc = "L132"  -> "L134"
    [] pc = "L138"  -> "L140"
    [] pc = "L142"  -> "done"
    [] pc = "L144"  -> "done"

(* mutant: the handler at app.py:143-144 logs the exception and yields     *)
(* nothing                                                                 *)
YieldNoFailLine(r) ==
  /\ gen[r].pc \in YieldPcs
  /\ gen' = [gen EXCEPT ![r] =
               IF gen[r].pc = "L144"
               THEN [@ EXCEPT !.pc = "done"]
               ELSE IF gen[r].connected
               THEN [@ EXCEPT !.out = Append(@, LineAt(gen[r])),
                              !.pc = AfterYield(gen[r].pc)]
               ELSE [@ EXCEPT !.pc = "cancelled"]]
  /\ UNCHANGED <<JOBS, issued, requests, cut, title, clips, tables, tmp, upload>>

(* app.py:129,130,132,138,142,144  a yield: the line goes to the consumer; *)
(* when the consumer is gone the server closes the generator               *)
(* (GeneratorExit, which "except Exception" does not catch).               *)
Yield(r) ==
  /\ gen[r].pc \in YieldPcs
  /\ gen' = [gen EXCEPT ![r] =
               IF gen[r].connected
               THEN [@ EXCEPT !.out = Append(@, LineAt(gen[r])),
                              !.pc = AfterYield(gen[r].pc)]
               ELSE [@ EXCEPT !.pc = "cancelled"]]
  /\ UNCHANGED <<JOBS, issued, requests, cut, title, clips, tables, tmp, upload>>

(* app.py:130, s3_utils.py:122-125  src = download_to_temp(s3_key);        *)
(* Path(None) raises TypeError; download_file may raise ClientError.       *)
Download(r) ==
  /\ gen[r].pc = "L130"
  /\ LET g == [gen[r] EXCEPT !.stages = Append(@, "acquire")]
     IN  IF g.s3_key = "None"
         THEN /\ gen' = [gen EXCEPT ![r] =
                           [g EXCEPT !.pc = "L144", !.err = "TypeError"]]
              /\ tmp' = tmp
         ELSE \/ /\ gen' = [gen EXCEPT ![r] =
                              [g EXCEPT !.pc = "L130y", !.src = g.sid]]
                 /\ tmp' = tmp \cup {g.sid}
              \/ /\ gen' = [gen EXCEPT ![r] =
                              [g EXCEPT !.pc = "L144", !.err = "ClientError"]]
                 /\ tmp' = tmp
  /\ UNCHANGED <<JOBS, issued, requests, cut, title, clips, tables, upload>>

(* app.py:134, 140 with app.py:55-56  run_cmd starts the child process     *)
Launch(r) ==
  /\ gen[r].pc \in {"L134", "L140"}
  /\ IF gen[r].pc = "L134"
     THEN /\ StartCut(r, gen[r].parts, Rat(0), gen[r].src, "pipe")
          /\ gen' = [gen EXCEPT ![r].pc = "run_cut",
                                ![r].stages = Append(@, "cut")]
          /\ title' = title
     ELSE /\ StartTitle(r, "pipe")
          /\ gen' = [gen EXCEPT ![r].pc = "run_title",
                                ![r].stages = Append(@, "enrich")]
          /\ cut' = cut
  /\ UNCHANGED <<JOBS, issued, requests, clips, tables, tmp, upload>>

(* the child whose output the generator is reading: title_clips.py once   *)
(* it has been started, cut.py before                                      *)
Child(r) == IF title[r].pc = "none" THEN cut[r] ELSE title[r]

SetChild(r, c) ==
  IF title[r].pc = "none"
  THEN cut' = [cut EXCEPT ![r] = c] /\ title' = title
  ELSE title' = [title EXCEPT ![r] = c] /\ cut' = cut

(* app.py:57 with 135 / 140  for ln in p.stdout: yield ln.  When the       *)
(* consumer is gone the generators are closed: Popen.__exit__ closes the   *)
(* read end of the pipe and then waits for the child.                      *)
ReadLine(r) ==
  /\ gen[r].pc \in {"run_cut", "run_title"}
  /\ Child(r).pipe > 0
  /\ IF gen[r].connected
     THEN /\ gen' = [gen EXCEPT ![r].out = Append(@, Line("child"))]
          /\ SetChild(r, [Child(r) EXCEPT !.pipe = @ - 1])
     ELSE /\ gen' = [gen EXCEPT ![r].pc = "closing"]
          /\ SetChild(r, [Child(r) EXCEPT !.pipe = 0, !.out = "closed"])
  /\ UNCHANGED <<JOBS, issued, requests, clips, tables, tmp, upload>>

(* mutant: the exit status of the child is never looked at *)
CheckReturncodeNever(exitpc) == "none"

(* app.py:58  p.check_returncode(): subprocess.Popen has no such method    *)
(* (it belongs to CompletedProcess), so the call raises AttributeError     *)
(* whatever the exit status of the child is.                               *)
CheckReturncode(exitpc) == "AttributeError"

(* app.py:58, then 136-138 or 141-142  end of the child's output: p.wait() *)
(* and p.check_returncode(); an exception goes to the handler at 143.      *)
RunCmdEnd(r) ==
  /\ gen[r].pc \in {"run_cut", "run_title"}
  /\ Child(r).pipe = 0
  /\ Child(r).pc \in {"exit0", "exit1"}
  /\ LET e == CheckReturncode(Child(r).pc)
     IN  gen' = [gen EXCEPT ![r] =
                   IF e # "none"
                   THEN [@ EXCEPT !.pc = "L144", !.err = e]
                   ELSE [@ EXCEPT !.pc = IF gen[r].pc = "run_cut"
                                         THEN "L138" ELSE "L142"]]
  /\ UNCHANGED <<JOBS, issued, requests, cut, title, clips, tables, tmp, upload>>

(* subprocess.Popen.__exit__  wait() returns once the child has exited *)
WaitClosed(r) ==
  /\ gen[r].pc = "closing"
  /\ Child(r).pc \in {"exit0", "exit1"}
  /\ gen' = [gen EXCEPT ![r].pc = "cancelled"]
  /\ UNCHANGED <<JOBS, issued, requests, cut, title, clips, tables, tmp, upload>>

(* the consumer of the stream goes away *)
Disconnect(r) ==
  /\ ~GenOver(gen[r])
  /\ gen[r].connected
  /\ gen' = [gen EXCEPT ![r].connected = FALSE]
  /\ UNCHANGED <<JOBS, issued, requests, cut, title, clips, tables, tmp, upload>>

(* ================= upload negotiation (app.py, s3_utils.py) =========== *)
(* A file name is its stem and its suffix ("" when it has none).  A key is *)
(* "full/" + name + ext, where name is a uuid4 (numbered by order of       *)
(* drawing; two draws never agree) or the stem of the declared file name.  *)
(* Sizes are in bytes.  math.ceil(size / (part_mb * 1024 * 1024)) is       *)
(* computed exactly (the float quotient is exact enough below 2^52).       *)
MiB     == 1024 * 1024
PART_MB == 8
FileNames   == [stem : 1..MaxNames, ext : {"", ".mov"}]
UploadSizes ==
  {m * MiB + d : m \in 0..MaxSizeMiB, d \in {0, 1}}
    \cup {50 * MiB, 500 * MiB}
PartMbs     == (1..MaxPartMb) \cup {PART_MB}

NoKey  == [name |-> <<"none", 0>>, ext |-> ""]
NoPlan ==
  [fn |-> "none", declared |-> 0, multipart |-> FALSE, s3_key |-> NoKey,
   upload_id |-> 0, part_mb |-> 0, part_urls |-> <<>>, complete_url |-> <<>>]

(* accel is ACCEL_ON (s3_utils.py:19); sessions are the multipart upload   *)
(* sessions opened on the bucket, each <<client, UploadId>>.               *)
NoUpload(accel) ==
  [accel |-> accel, calls |-> 0, uuids |-> 0, keys |-> <<>>,
   sessions |-> {}, plan |-> NoPlan, err |-> "none"]

(* app.py:67  Path(filename).suffix or ".mp4" *)
SuffixOrMp4(fn) == IF fn.ext = "" THEN ".mp4" ELSE fn.ext

(* app.py:68  key = f"full/{uuid.uuid4().hex}{ext}" *)
SignKey(fn, n) == [name |-> <<"uuid", n>>, ext |-> SuffixOrMp4(fn)]

(* s3_utils.py:46, 63  key = f"full/{filename}" *)
FileKey(fn) == [name |-> <<"file", fn.stem>>, ext |-> fn.ext]

Returned(u, plan) ==
  [u EXCEPT !.calls = u.calls + 1, !.keys = Append(u.keys, plan.s3_key),
            !.plan = plan, !.err = "none"]

(* app.py:63-80  sign: reads request.json["filename"] only; whatever size  *)
(* the client declares, the answer is one presigned POST.                  *)
Sign(fn, size) ==
  /\ upload.calls < MaxCalls
  /\ upload' = Returned([upload EXCEPT !.uuids = upload.uuids + 1],
                 [NoPlan EXCEPT !.fn = "sign", !.declared = size,
                                !.s3_key = SignKey(fn, upload.uuids + 1)])
  /\ UNCHANGED <<JOBS, issued, requests, gen, cut, title, clips, tables, tmp>>

(* s3_utils.py:45-56  presign_single_post(filename): no size argument *)
PresignSinglePost(fn, size) ==
  /\ upload.calls < MaxCalls
  /\ upload' = Returned(upload,
                 [NoPlan EXCEPT !.fn = "presign_single_post",
                                !.declared = size, !.s3_key = FileKey(fn)])
  /\ UNCHANGED <<JOBS, issued, requests, gen, cut, title, clips, tables, tmp>>

(* s3_utils.py:64  parts = math.ceil(size / (part_mb * 1024 * 1024)) *)
MultipartPartsFloor(size, part_mb) == size \div (part_mb * MiB)
MultipartParts(size, part_mb) == RatCeilDiv(Rat(size), Rat(part_mb * MiB))

(* s3_utils.py:84-97  one URL per i in range(1, parts + 1) *)
PartUrls(client, id, parts) ==
  [i \in 1..parts |-> [client |-> client, upload_id |-> id, part |-> i]]

(* s3_utils.py:61-113  presign_multipart.  accErr and s3Err are the        *)
(* outcomes of create_multipart_upload on _acc and on _s3 ("none": the     *)
(* session is opened).  A ClientError that is not the fallback case, or    *)
(* one raised by _s3, leaves the function: no plan is returned.            *)
PresignMultipart(fn, size, part_mb, accErr, s3Err) ==
  /\ upload.calls < MaxCalls
  /\ LET u      == upload
         key    == FileKey(fn)
         parts  == MultipartParts(size, part_mb)
         id1    == Cardinality(u.sessions) + 1
         accOk  == accErr = "none"
         s1     == IF accOk THEN u.sessions \cup {<<"_acc", id1>>}
                   ELSE u.sessions
         raise1 == ~accOk /\ ~(u.accel /\ accErr = "InvalidRequest")
         use_accel == u.accel /\ accOk
         id2    == Cardinality(s1) + 1
         s3Ok   == s3Err = "none"
         s2     == IF ~use_accel /\ s3Ok THEN s1 \cup {<<"_s3", id2>>} ELSE s1
         client == IF use_accel THEN "_acc" ELSE "_s3"
         id     == IF use_accel THEN id1 ELSE id2
         failed == [u EXCEPT !.calls = u.calls + 1, !.plan = NoPlan,
                             !.err = "ClientError"]
     IN  IF raise1
         THEN upload' = failed
         ELSE IF ~use_accel /\ ~s3Ok
         THEN upload' = [failed EXCEPT !.sessions = s1]
         ELSE upload' =
                Returned([u EXCEPT !.sessions = s2],
                  [fn |-> "presign_multipart", declared |-> size,
                   multipart |-> TRUE, s3_key |-> key, upload_id |-> id,
                   part_mb |-> part_mb,
                   part_urls |-> PartUrls(client, id, parts),
                   complete_url |-> <<[client |-> client, upload_id |-> id]>>])
  /\ UNCHANGED <<JOBS, issued, requests, gen, cut, title, clips, tables, tmp>>

(* ========================== specifications ============================ *)
Init ==
  /\ JOBS = << >>
  /\ issued = 0
  /\ requests = 0
  /\ gen = [r \in Streams |-> IdleGen]
  /\ cut = [o \in Owners |-> NoCut]
  /\ title = [o \in Owners |-> NoTitle]
  /\ clips = {}
  /\ tables = <<>>
  /\ tmp = {}
  /\ upload = NoUpload(FALSE)

(* the web application.  A start-job request carries a "parts" value that  *)
(* max(2, .) clamps (0) or keeps (MaxReqParts); the media of a job lasts   *)
(* MaxTotal seconds.  title_clips.py is started only at app.py:140, which  *)
(* is reached only when run_cmd returns without raising (RunCmdEnd); its   *)
(* steps are the actions of SpecTitle.                                     *)
Next ==
  \/ \E p \in {0, MaxReqParts} : StartJob(p)
  \/ \E r \in Streams, id \in {BogusId} \cup (1..issued) : StreamRaw(r, id)
  \/ \E r \in Streams :
       \/ Purge(r) \/ Yield(r) \/ Download(r) \/ Launch(r)
       \/ ReadLine(r) \/ RunCmdEnd(r) \/ WaitClosed(r) \/ Disconnect(r)
  \/ \E r \in Streams :
       \/ FastCutCheck(r) \/ VideoDuration(r, {MaxTotal})
       \/ PlanAndAnnounce(r) \/ MakeSlice(r) \/ CutFooter(r)

Spec == Init /\ [][Next]_vars

(* cut.py from the shell *)
Intervals == {Rat(i) : i \in 0..MaxInterval}

NextCut ==
  \/ \E p \in 0..MaxParts, iv \in Intervals : RunFastCut(p, iv)
  \/ FastCutCheck(Shell) \/ VideoDuration(Shell, 0..MaxTotal)
  \/ PlanAndAnnounce(Shell) \/ MakeSlice(Shell) \/ CutFooter(Shell)

SpecCut == Init /\ [][NextCut]_vars

(* jobs run one after another: every request is served in stream slot 1,   *)
(* which takes a new request only when its generator is over               *)
NextSeq ==
  \/ \E p \in {0, MaxReqParts} : StartJobUpTo(p, MaxRuns)
  \/ \E id \in {BogusId} \cup (1..issued) : StreamRawUpTo(1, id, MaxRuns)
  \/ Purge(1) \/ Yield(1) \/ Download(1) \/ Launch(1)
  \/ ReadLine(1) \/ RunCmdEnd(1) \/ WaitClosed(1) \/ Disconnect(1)
  \/ FastCutCheck(1) \/ VideoDuration(1, {MaxTotal})
  \/ PlanAndAnnounce(1) \/ MakeSlice(1) \/ CutFooter(1)

SpecSeq == Init /\ [][NextSeq]_vars

(* jobs run at the same time: MaxPair stream slots, each request served by *)
(* a thread of its own; all of them use the one videos/clips directory     *)
PairStreams == 1..MaxPair

InitPair ==
  /\ Init!1 /\ Init!2 /\ Init!3
  /\ gen = [r \in PairStreams |-> IdleGen]
  /\ cut = [o \in {Shell} \cup PairStreams |-> NoCut]
  /\ title = [o \in {Shell} \cup PairStreams |-> NoTitle]
  /\ Init!7 /\ Init!8 /\ Init!9 /\ Init!10

NextPair ==
  \/ \E p \in {0, MaxReqParts} : StartJobUpTo(p, MaxPair)
  \/ \E r \in PairStreams, id \in {BogusId} \cup (1..issued) :
       StreamRawUpTo(r, id, MaxPair)
  \/ \E r \in PairStreams :
       \/ Purge(r) \/ Yield(r) \/ Download(r) \/ Launch(r)
       \/ ReadLine(r) \/ RunCmdEnd(r) \/ WaitClosed(r) \/ Disconnect(r)
  \/ \E r \in PairStreams :
       \/ FastCutCheck(r) \/ VideoDuration(r, {MaxTotal})
       \/ PlanAndAnnounce(r) \/ MakeSlice(r) \/ CutFooter(r)

SpecPair == InitPair /\ [][NextPair]_vars

(* title_clips.py from the shell, over what a cut left in videos/clips *)
ClipSet(k) == {<<0, i>> : i \in 1..k}

InitTitle ==
  /\ Init!1 /\ Init!2 /\ Init!3 /\ Init!4 /\ Init!5 /\ Init!6
  /\ clips \in {ClipSet(k) : k \in 0..MaxClips}
  /\ tables = <<>>
  /\ tmp = {}
  /\ upload = NoUpload(FALSE)

NextTitle ==
  \/ RunTitle
  \/ TitleKeyCheck(Shell) \/ ListClips(Shell)
  \/ ProcessClip(Shell) \/ WriteTable(Shell)

SpecTitle == InitTitle /\ [][NextTitle]_vars

(* title_clips.py over the clips of one plan of up to MaxLongPlan          *)
(* segments, every clip being transcribed and titled without error         *)
InitOrder ==
  /\ Init!1 /\ Init!2 /\ Init!3 /\ Init!4 /\ Init!5 /\ Init!6
  /\ clips \in {ClipSet(k) : k \in 0..MaxLongPlan}
  /\ Init!8 /\ Init!9 /\ Init!10

NextOrder ==
  \/ RunTitle
  \/ TitleKeyCheck(Shell) \/ ListClips(Shell)
  \/ ProcessClipWith(Shell, {"ok"}, {"text"}, {"ok"}) \/ WriteTable(Shell)

SpecOrder == InitOrder /\ [][NextOrder]_vars

(* the upload negotiation: calls of sign and of the two presign functions  *)
(* of s3_utils.py, with S3_ACCEL set or not                                *)
InitUpload ==
  /\ Init!1 /\ Init!2 /\ Init!3 /\ Init!4 /\ Init!5 /\ Init!6
  /\ Init!7 /\ Init!8 /\ Init!9
  /\ upload \in {NoUpload(a) : a \in BOOLEAN}

CreateOutcomes == {"none", "InvalidRequest", "AccessDenied"}

NextUpload ==
  \E fn \in FileNames, size \in UploadSizes :
    \/ Sign(fn, size)
    \/ PresignSinglePost(fn, size)
    \/ \E part_mb \in PartMbs, accErr \in CreateOutcomes,
          s3Err \in {"none", "AccessDenied"} :
         PresignMultipart(fn, size, part_mb, accErr, s3Err)

SpecUpload == InitUpload /\ [][NextUpload]_vars

(* ============================ properties ============================== *)
Range(f) == {f[i] : i \in DOMAIN f}
IsTerminal(ln) == ln.kind \in {"FINISHED", "fail"}
Terminals(out) == {i \in DOMAIN out : IsTerminal(out[i])}
MicroStages == <<"acquire", "cut", "enrich">>
(* the micro-stages a generator has started, in order (the purge apart) *)
Started(g) == SelectSeq(g.stages, LAMBDA st : st # "purge")
IsPrefix(a, b) == Len(a) <= Len(b) /\ \A i \in DOMAIN a : a[i] = b[i]

(* C1: a stream_raw request whose job id is not in JOBS (already consumed, *)
(* or never registered) executes no stage at all: no purge of the clips    *)
(* directory, no acquire, no cut, no enrich.                               *)
C1_NotFoundRunsNothing ==
  \A r \in Streams :
    (gen[r].pc # "idle" /\ ~gen[r].found) => gen[r].stages = <<>>

(* C2: a job registered by start_job whose download succeeded, whose       *)
(* child processes all exited with status 0 and whose stream was read to   *)
(* the end has run the enrich stage and ends with the FINISHED line.       *)
C2_SuccessReported ==
  \A r \in Streams :
    (/\ gen[r].found /\ gen[r].pc = "done"
     /\ gen[r].src # 0
     /\ cut[r].pc = "exit0" /\ title[r].pc # "exit1") =>
      (/\ Last(gen[r].out).kind = "FINISHED"
       /\ "enrich" \in Range(gen[r].stages))

(* C3: once the extraction of plan entry i has failed, no later entry is   *)
(* attempted, the enrich stage is not started, and a stream read to its    *)
(* end is a failed job whose last line is the failure marker.              *)
C3_ExtractionFailureStops ==
  \A r \in Streams :
    cut[r].failed # 0 =>
      /\ Len(cut[r].slices) = cut[r].failed
      /\ "enrich" \notin Range(gen[r].stages)
      /\ title[r].pc = "none"
      /\ gen[r].pc = "done" =>
           (gen[r].err # "none" /\ Last(gen[r].out) = FailLine(gen[r].err))

C3_Witness ==
  \E r \in Streams :
    /\ cut[r].failed = 2 /\ cut[r].parts = 3
    /\ gen[r].pc = "done" /\ Last(gen[r].out).kind = "fail"

(* C4: a terminal marker is never followed by another line, and a stream   *)
(* read to its end holds exactly one terminal marker, as its last line.    *)
C4_OneTerminalMarker ==
  \A r \in Streams :
    /\ \A i \in Terminals(gen[r].out) : i = Len(gen[r].out)
    /\ gen[r].pc = "done" =>
         (/\ Cardinality(Terminals(gen[r].out)) = 1
          /\ IsTerminal(Last(gen[r].out)))

C4_Witness ==
  \E r \in Streams :
    /\ gen[r].pc = "done" /\ Len(gen[r].out) > 3
    /\ Last(gen[r].out).kind = "fail"

(* C5: the micro-stages start in the order acquire, cut, enrich, each at   *)
(* most once and only after the one before has completed successfully;     *)
(* after the first failure there is at most one failure line, it carries   *)
(* the cause, a stream read to the end has it, and no stage starts.        *)
C5_StageInv(r) ==
  LET g == gen[r]
      fails == {i \in DOMAIN g.out : g.out[i].kind = "fail"}
  IN  /\ IsPrefix(Started(g), MicroStages)
      /\ "cut" \in Range(g.stages) => g.src # 0 /\ g.src \in tmp
      /\ "enrich" \in Range(g.stages) => cut[r].pc = "exit0"
      /\ \A i \in fails : g.err # "none" /\ g.out[i] = FailLine(g.err)
      /\ Cardinality(fails) <= 1
      /\ (g.pc = "done" /\ g.err # "none") => Cardinality(fails) = 1

PlanSlice(total, p, iv, idx) ==
  <<SliceStart(idx, PlanInterval(total, p, iv)),
    SliceEnd(idx, PlanInterval(total, p, iv), total)>>

Covers(sl, total) ==
  /\ RatEq(sl[1][1], Rat(0))
  /\ \A i \in 1..(Len(sl) - 1) : RatEq(sl[i + 1][1], sl[i][2])
  /\ RatEq(sl[Len(sl)][2], total)

(* C6: count mode (total > 0, count >= 2): fast_cut requests exactly count *)
(* slices, the first from 0, each from the end of the one before, the last *)
(* to total; 600 s in 5 parts gives starts 0,120,...,480 of 120 s each.    *)
C6_CountCoverage ==
  LET c == cut[Shell] IN
  /\ (c.pc = "exit0" /\ c.argParts >= 2 /\ c.argInterval = Rat(0)
        /\ c.total[1] > 0) =>
       (Len(c.slices) = c.argParts /\ Covers(c.slices, c.total))
  /\ PlanParts(Rat(600), 5, Rat(0)) = 5
  /\ \A i \in 0..4 :
       LET sl == PlanSlice(Rat(600), 5, Rat(0), i)
       IN  RatEq(sl[1], Rat(120 * i)) /\ RatEq(RatSub(sl[2], sl[1]), Rat(120))

C6_Witness ==
  LET c == cut[Shell] IN
  /\ c.pc = "exit0" /\ c.argParts = 4 /\ c.total = Rat(6)
  /\ Len(c.slices) = 4 /\ c.slices[2] = <<<<6, 4>>, <<12, 4>>>>

(* C7: interval mode (total > 0, interval > 0): fast_cut requests exactly  *)
(* ceil(total/interval) slices covering [0, total] without gap or overlap, *)
(* all of length interval except the last, which ends at total;            *)
(* 125 s by 50 s gives (0,50), (50,50), (100,25).                          *)
C7_IntervalCoverage ==
  LET c == cut[Shell]
      n == Len(c.slices)
      len(i) == RatSub(c.slices[i][2], c.slices[i][1])
  IN
  /\ (c.pc = "exit0" /\ c.argParts = 0 /\ c.argInterval[1] > 0
        /\ c.total[1] > 0) =>
       (/\ n >= 1
        /\ RatLeq(c.total, RatMulInt(n, c.argInterval))
        /\ ~RatLeq(c.total, RatMulInt(n - 1, c.argInterval))
        /\ Covers(c.slices, c.total)
        /\ \A i \in 1..(n - 1) : RatEq(len(i), c.argInterval)
        /\ RatEq(len(n), RatSub(c.total, RatMulInt(n - 1, c.argInterval))))
  /\ PlanParts(Rat(125), 0, Rat(50)) = 3
  /\ \A i \in 0..2 :
       LET sl == PlanSlice(Rat(125), 0, Rat(50), i)
       IN  /\ RatEq(sl[1], Rat(50 * i))
           /\ RatEq(RatSub(sl[2], sl[1]), Rat(IF i = 2 THEN 25 ELSE 50))

C7_Witness ==
  LET c == cut[Shell] IN
  /\ c.pc = "exit0" /\ c.argParts = 0 /\ c.argInterval = Rat(4)
  /\ c.total = Rat(6) /\ c.slices = << <<Rat(0), Rat(4)>>, <<Rat(4), Rat(6)>> >>

(* C8: for k >= 1 artifacts and any outcomes of the per-artifact steps,    *)
(* title_clips.py ends normally with a table of exactly k records.         *)
C8_OneRecordPerArtifact ==
  LET t == title[Shell] IN
  (t.pc = "exit0" /\ t.k >= 1) =>
     (t.wrote /\ Len(Last(tables)) = t.k)

(* C9: with no artifact, title_clips.py still writes a table, holding one  *)
(* explanatory marker row.                                                 *)
C9_EmptySetMarkerRow ==
  LET t == title[Shell] IN
  (t.pc = "exit0" /\ t.k = 0) =>
     (t.wrote /\ Len(Last(tables)) = 1)

(* C10: once the producer has observed that the consumer is gone (the      *)
(* generator is closed), the job's cut.py starts no further extraction and *)
(* the enrich stage is not started.                                        *)
C10_CancelStopsExtraction ==
  [][\A r \in Streams :
       (gen[r].pc \in {"closing", "cancelled"} /\ gen'[r].sid = gen[r].sid) =>
          /\ Len(cut'[r].slices) = Len(cut[r].slices)
          /\ "enrich" \notin Range(gen'[r].stages)]_vars

(* C11: once a job whose acquire stage completed has been stopped by the   *)
(* consumer's disconnect, the temporary file that download_to_temp made    *)
(* for it no longer exists.                                                *)
C11_CancelRemovesTemp ==
  \A r \in Streams :
    (gen[r].pc = "cancelled" /\ gen[r].src # 0) => gen[r].src \notin tmp

(* C12: every plan the upload negotiation returns is Single when the       *)
(* declared size is at most 100 MiB and Multipart when it is larger.       *)
SingleMaxMiB == 100
C12_ProtocolBySize ==
  LET plan == upload.plan IN
  plan.fn # "none" =>
     (plan.multipart <=> plan.declared > SingleMaxMiB * MiB)

(* C13: a plan returned by presign_multipart for size > 0 has n chunk URLs *)
(* for parts 1..n in order, n being the least number of chunks of part_mb  *)
(* MiB that hold size bytes, and one complete URL; 500 MiB in chunks of    *)
(* 8 MiB is 63 chunks.                                                     *)
C13_ChunkCount ==
  /\ LET plan  == upload.plan
         n     == Len(plan.part_urls)
         chunk == plan.part_mb * MiB
     IN  (plan.fn = "presign_multipart" /\ plan.declared > 0) =>
            /\ n * chunk >= plan.declared
            /\ (n - 1) * chunk < plan.declared
            /\ \A i \in 1..n : plan.part_urls[i].part = i
            /\ Len(plan.complete_url) = 1
  /\ MultipartParts(500 * MiB, PART_MB) = 63
  /\ Len(PartUrls("_s3", 1, MultipartParts(500 * MiB, PART_MB))) = 63

C13_Witness ==
  LET plan == upload.plan IN
  /\ plan.fn = "presign_multipart"
  /\ plan.declared = 2 * MiB + 1 /\ plan.part_mb = 2
  /\ Len(plan.part_urls) = 2

(* C14: no two upload negotiation calls return the same object key.        *)
C14_FreshKeys ==
  \A i, j \in DOMAIN upload.keys :
    i # j => upload.keys[i] # upload.keys[j]

(* C15: for jobs run one after another, from the start of a job's plan+cut *)
(* stage on (and so when its enrich stage starts) the clips directory      *)
(* holds only clips cut from that job's own source: what earlier runs left *)
(* was purged before.                                                      *)
C15_NoStaleSegments ==
  LET g == gen[1] IN
  ("cut" \in Range(g.stages) \/ "enrich" \in Range(g.stages)) =>
     \A c \in clips : c[1] = g.src /\ g.src = g.sid

C15_Witness ==
  /\ gen[1].sid = 2 /\ gen[1].pc = "run_cut"
  /\ 1 \in tmp
  /\ clips = {<<2, 1>>, <<2, 2>>}

(* C16: when the probed duration of the source is zero (or the probe       *)
(* fails), fast_cut ends with an error before any plan is made and before  *)
(* any extraction is attempted, in count mode and in interval mode.        *)
C16_DegenerateDuration ==
  LET c == cut[Shell] IN
  (c.pc \notin {"none", "L63", "L66"} /\ c.total = Rat(0)) =>
     (c.pc = "exit1" /\ c.slices = <<>>)

(* C17: a fast_cut call that gives both a count and an interval, or        *)
(* neither, ends with an error at its first step: the duration is never    *)
(* probed, no slice is extracted and the clips directory is left as it was.*)
C17_Rejected(c) ==
  \/ c.argParts # 0 /\ c.argInterval[1] # 0
  \/ c.argParts = 0 /\ c.argInterval[1] = 0

C17_ValidationFirst ==
  /\ [](LET c == cut[Shell] IN
        (c.pc # "none" /\ C17_Rejected(c)) =>
           /\ c.pc \in {"L63", "exit1"}
           /\ c.total = Rat(0) /\ c.parts = 0 /\ c.slices = <<>>)
  /\ [][(cut'[Shell].pc # "none" /\ C17_Rejected(cut'[Shell])) =>
           clips' = clips]_vars

C17_Witness ==
  LET c == cut[Shell] IN
  /\ c.pc = "exit1" /\ c.argParts = 2 /\ c.argInterval = Rat(3)
  /\ clips # {}

(* C18: with two jobs running at the same time, a step of one job never    *)
(* removes a clip that the other, still running, job has cut.              *)
C18_JobsIndependent ==
  [][\A r \in PairStreams :
       (~GenOver(gen[r]) /\ gen'[r] = gen[r] /\ cut'[r] = cut[r]) =>
          \A c \in clips : c[1] = gen[r].sid => c \in clips']_vars

(* C19: whatever the number of clips of the plan (ten or more included),   *)
(* title_clips.py takes the clips, and writes their records, in increasing *)
(* part number.                                                            *)
C19_Increasing(files) ==
  \A i, j \in DOMAIN files : i < j => files[i][2] < files[j][2]

C19_OrdinalOrder ==
  LET t == title[Shell] IN
  /\ C19_Increasing(t.todo)
  /\ C19_Increasing([i \in DOMAIN t.rows |-> t.rows[i].file])
  /\ \A n \in DOMAIN tables :
       C19_Increasing([i \in DOMAIN tables[n] |-> tables[n][i].file])

(* C20: albanian_title is called only with a non-empty transcript: a clip  *)
(* whose transcript is empty gets its (placeholder) record without a call  *)
(* of the title generation.                                                *)
C20_NoTitleCallOnEmpty ==
  LET t == title[Shell] IN
  \A i \in DOMAIN t.titleCalls : t.titleCalls[i] # "empty"

(* C21: after process_clip has returned for a clip, on every path, the     *)
(* temporary audio file made for that clip is gone: no .ogg file of        *)
(* title_clips.py is ever left behind.                                     *)
C21_TempAudioReleased ==
  title[Shell].oggs = 0

(* C22: a call of presign_multipart that returns a plan opens exactly one  *)
(* multipart upload session, and the plan's upload id, its chunk URLs and  *)
(* its complete URL all name that session and its client.                  *)
C22_OneSessionPerPlan ==
  [][(upload'.calls = upload.calls + 1
        /\ upload'.plan.fn = "presign_multipart") =>
       LET plan   == upload'.plan
           opened == upload'.sessions \ upload.sessions
       IN  /\ Cardinality(opened) = 1
           /\ \A ss \in opened :
                /\ ss[2] = plan.upload_id
                /\ \A i \in DOMAIN plan.part_urls :
                     /\ plan.part_urls[i].client = ss[1]
                     /\ plan.part_urls[i].upload_id = ss[2]
                /\ plan.complete_url = <<[client |-> ss[1],
                                          upload_id |-> ss[2]]>>]_vars

=============================================================================
